---- MODULE Spec2Model ----
(***************************************************************************)
(* Model of the orchestrator's agent-to-agent delegation layer:            *)
(* OrchestratorAgent in src/orchestrator/orchestrator_agent/agent.py.      *)
(*                                                                         *)
(*   - discovery  (_async_init_components): the loop over the addresses,   *)
(*     one step per address, then the composition of the agent listing;    *)
(*   - stream: session lookup / creation, then one emitted dict per event  *)
(*     of the runner;                                                      *)
(*   - send_message: the delegation tool, split at its one suspension      *)
(*     point (await client.send_message).                                  *)
(*                                                                         *)
(* The language model, the ADK runner and the remote peers are the         *)
(* environment: their answers are inputs of the actions.                   *)
(***************************************************************************)
EXTENDS Integers, Sequences, FiniteSets, TLC

(***************************************************************************)
(* Bounds of the model.                                                    *)
(***************************************************************************)
\* longest address list handed to discovery (SpecDiscovery)
MaxAddrs == 3
\* most parts of an artifact, most artifacts of a Task (SpecReply)
MaxParts == 2
MaxArtifacts == 2
\* most events the runner yields over all the turns of one behaviour
MaxTotalSteps == 3
\* most send_message calls over all the turns of one behaviour
MaxDelegations == 2
\* most discovery calls of one behaviour (SpecDiscovery)
MaxRuns == 2
\* most events of the turn of SpecFinal
MaxFinalEvents == 2

(***************************************************************************)
(* Python values.                                                          *)
(***************************************************************************)
None == "None"

\* A Python dict: insertion-ordered entries; assigning an existing key
\* replaces the value in place, a new key goes last.
EmptyDict == << >>

DictKeys(d) == [i \in 1..Len(d) |-> d[i].key]

DictKeySet(d) == {d[i].key : i \in 1..Len(d)}

DictHas(d, k) == k \in DictKeySet(d)

DictGet(d, k) == d[CHOOSE i \in 1..Len(d) : d[i].key = k].value

DictValues(d) == [i \in 1..Len(d) |-> d[i].value]

\* d[k] = v: the value of a present key is replaced in place, a new key is
\* added at the end
DictSet_AlwaysAppends(d, k, v) == Append(d, [key |-> k, value |-> v])

DictSet(d, k, v) ==
    IF DictHas(d, k)
    THEN [i \in 1..Len(d) |-> IF d[i].key = k THEN [key |-> k, value |-> v] ELSE d[i]]
    ELSE Append(d, [key |-> k, value |-> v])

(***************************************************************************)
(* The remote peers: what the card resolver gets at each address.          *)
(***************************************************************************)
Addresses == {"A_ok", "A_down", "B_ok", "A_twin", "A_bad"}

\* get_agent_card() at an address: a card, httpx.ConnectError (peer down),
\* or another exception (malformed card).  A_twin advertises the same name
\* as A_ok.
Peer(address) ==
    CASE address = "A_ok"   -> [kind |-> "card", card |-> [name |-> "Weather_Agent", description |-> "weather reports"]]
      [] address = "B_ok"   -> [kind |-> "card", card |-> [name |-> "Calendar_Agent", description |-> "calendar lookups"]]
      [] address = "A_twin" -> [kind |-> "card", card |-> [name |-> "Weather_Agent", description |-> "weather, second peer"]]
      [] address = "A_down" -> [kind |-> "ConnectError"]
      [] address = "A_bad"  -> [kind |-> "Exception"]

\* sequences over S of length 0..n
RECURSIVE SeqsUpTo(_, _)
SeqsUpTo(S, n) ==
    IF n = 0 THEN { << >> }
    ELSE LET shorter == SeqsUpTo(S, n - 1)
         IN  shorter \cup {Append(s, x) : s \in {q \in shorter : Len(q) = n - 1}, x \in S}

AddressLists == SeqsUpTo(Addresses, MaxAddrs)

\* the lists the process is started with in Spec: one peer up, one down,
\* one up; and a single peer with a malformed card
ConfiguredAddresses == { <<"A_ok", "A_down", "B_ok">>, <<"A_bad">> }

VARIABLES
    \* ---- discovery ----
    remote_agent_addresses,   \* the argument of _async_init_components
    disc_pc,                  \* "new" (constructed) | "loop" | "done" | "raised"
    disc_i,                   \* index of the next address of the loop
    remote_agent_connections, \* self.remote_agent_connections (dict)
    cards,                    \* self.cards (dict)
    agents,                   \* self.agents: the listing, a sequence of lines
    printed,                  \* what the except branches printed
    disc_run,                 \* number of the discovery call, from 1
    inst_run,                 \* its number among the calls on this instance
    prev_registry,            \* what the discovery call before this one left
    \* ---- query turns ----
    pc,                       \* per turn: position in stream / send_message
    turn,                     \* per turn: its locals
    sessions,                 \* the session service's store: session_id -> session
    created,                  \* create_session calls so far, per session_id
    store_yields,             \* whether the session service's calls give up control
    sent,                     \* requests handed to a connection, in order
    uuid_next,                \* uuid.uuid4(): the next fresh value
    steps_left                \* events the runner may still yield (bound)

run_vars == <<disc_run, inst_run, prev_registry>>
disc_vars == <<remote_agent_addresses, disc_pc, disc_i, remote_agent_connections,
               cards, agents, printed, disc_run, inst_run, prev_registry>>
turn_vars == <<pc, turn, sessions, created, store_yields, sent, uuid_next, steps_left>>
vars == <<remote_agent_addresses, disc_pc, disc_i, remote_agent_connections,
          cards, agents, printed, disc_run, inst_run, prev_registry,
          pc, turn, sessions, created, store_yields, sent, uuid_next, steps_left>>

(***************************************************************************)
(* Discovery: OrchestratorAgent._async_init_components.                    *)
(***************************************************************************)
\* RemoteAgentConnections(agent_card=card, agent_url=address)
RemoteAgentConnection(card, address) == [agent_card |-> card, agent_url |-> address]

\* json.dumps({"name": card.name, "description": card.description}): one line
AgentInfoLine(card) == [name |-> card.name, description |-> card.description]

NoAgentsText == <<"No connected agents found.">>

\* "\n".join(agent_info) if agent_info else "No connected agents found."
ComposeAgents_NoFallback(the_cards) ==
    [i \in 1..Len(the_cards) |-> AgentInfoLine(the_cards[i].value)]

ComposeAgents(the_cards) ==
    LET agent_info == [i \in 1..Len(the_cards) |-> AgentInfoLine(the_cards[i].value)]
    IN  IF agent_info # << >> THEN agent_info ELSE NoAgentsText

\* OrchestratorAgent.create: cls(tools) then _async_init_components starts
DiscoverStart ==
    /\ disc_pc = "new"
    /\ disc_pc' = "loop"
    /\ disc_i' = 1
    /\ UNCHANGED <<remote_agent_addresses, remote_agent_connections, cards, agents, printed>>
    /\ UNCHANGED run_vars
    /\ UNCHANGED turn_vars

\* the try branch: the card is fetched, the connection and the card stored
DiscoverCard_KeepsFirstCard ==
    /\ disc_pc = "loop"
    /\ disc_i <= Len(remote_agent_addresses)
    /\ LET address == remote_agent_addresses[disc_i]
           got == Peer(address)
       IN  /\ got.kind = "card"
           /\ remote_agent_connections' =
                  DictSet(remote_agent_connections, got.card.name,
                          RemoteAgentConnection(got.card, address))
           /\ cards' = IF DictHas(cards, got.card.name) THEN cards
                       ELSE DictSet(cards, got.card.name, got.card)
    /\ disc_i' = disc_i + 1
    /\ UNCHANGED <<remote_agent_addresses, disc_pc, agents, printed>>
    /\ UNCHANGED run_vars
    /\ UNCHANGED turn_vars

DiscoverCard ==
    /\ disc_pc = "loop"
    /\ disc_i <= Len(remote_agent_addresses)
    /\ LET address == remote_agent_addresses[disc_i]
           got == Peer(address)
       IN  /\ got.kind = "card"
           /\ remote_agent_connections' =
                  DictSet(remote_agent_connections, got.card.name,
                          RemoteAgentConnection(got.card, address))
           /\ cards' = DictSet(cards, got.card.name, got.card)
    /\ disc_i' = disc_i + 1
    /\ UNCHANGED <<remote_agent_addresses, disc_pc, agents, printed>>
    /\ UNCHANGED run_vars
    /\ UNCHANGED turn_vars

\* except httpx.ConnectError: print, go on with the next address
DiscoverConnectError_Aborts ==
    /\ disc_pc = "loop"
    /\ disc_i <= Len(remote_agent_addresses)
    /\ Peer(remote_agent_addresses[disc_i]).kind = "ConnectError"
    /\ disc_pc' = "raised"
    /\ UNCHANGED <<remote_agent_addresses, disc_i, remote_agent_connections, cards, agents, printed>>
    /\ UNCHANGED run_vars
    /\ UNCHANGED turn_vars

DiscoverConnectError ==
    /\ disc_pc = "loop"
    /\ disc_i <= Len(remote_agent_addresses)
    /\ LET address == remote_agent_addresses[disc_i]
       IN  /\ Peer(address).kind = "ConnectError"
           /\ printed' = Append(printed, [text |-> "ERROR: Failed to get agent card from", address |-> address])
    /\ disc_i' = disc_i + 1
    /\ UNCHANGED <<remote_agent_addresses, disc_pc, remote_agent_connections, cards, agents>>
    /\ UNCHANGED run_vars
    /\ UNCHANGED turn_vars

\* except Exception: print, go on with the next address
DiscoverException ==
    /\ disc_pc = "loop"
    /\ disc_i <= Len(remote_agent_addresses)
    /\ LET address == remote_agent_addresses[disc_i]
       IN  /\ Peer(address).kind = "Exception"
           /\ printed' = Append(printed, [text |-> "ERROR: Failed to initialize connection for", address |-> address])
    /\ disc_i' = disc_i + 1
    /\ UNCHANGED <<remote_agent_addresses, disc_pc, remote_agent_connections, cards, agents>>
    /\ UNCHANGED run_vars
    /\ UNCHANGED turn_vars

\* after the loop: the listing is composed from self.cards
DiscoverFinish ==
    /\ disc_pc = "loop"
    /\ disc_i > Len(remote_agent_addresses)
    /\ agents' = ComposeAgents(cards)
    /\ disc_pc' = "done"
    /\ UNCHANGED <<remote_agent_addresses, disc_i, remote_agent_connections, cards, printed>>
    /\ UNCHANGED run_vars
    /\ UNCHANGED turn_vars

\* what a finished discovery call leaves: the card map and the listing
Registry == [cards |-> cards, agents |-> agents]

\* _async_init_components is called again on the same instance, with the
\* same addresses: the loop starts over on the dicts the instance holds
RediscoverSame ==
    /\ disc_pc = "done"
    /\ disc_run < MaxRuns
    /\ disc_run' = disc_run + 1
    /\ inst_run' = inst_run + 1
    /\ prev_registry' = <<Registry>>
    /\ disc_pc' = "loop"
    /\ disc_i' = 1
    /\ UNCHANGED <<remote_agent_addresses, remote_agent_connections, cards, agents, printed>>
    /\ UNCHANGED turn_vars

\* OrchestratorAgent.create is called again with the same addresses:
\* cls(tools) constructs a fresh instance and its discovery starts
RediscoverFresh ==
    /\ disc_pc = "done"
    /\ disc_run < MaxRuns
    /\ disc_run' = disc_run + 1
    /\ inst_run' = 1
    /\ prev_registry' = <<Registry>>
    /\ remote_agent_connections' = EmptyDict
    /\ cards' = EmptyDict
    /\ agents' = << >>
    /\ disc_pc' = "loop"
    /\ disc_i' = 1
    /\ UNCHANGED <<remote_agent_addresses, printed>>
    /\ UNCHANGED turn_vars

(***************************************************************************)
(* Query turns.  The callers, the runner's events and the peers' replies   *)
(* are inputs.                                                             *)
(***************************************************************************)
Turns == {"t1", "t2"}

SessionIds == {"s1", "s2"}

\* names the language model may pass as agent_name
AgentNames == {"Weather_Agent", "Karley_Agent"}

\* Optional[X]: None is the empty sequence, a value x is <<x>>
Nothing == << >>

Some(x) == <<x>>

\* ---- events of the runner (google.adk Event) ----
\* content: Optional[Content]; a Content is its list of parts, a part is its
\* text ("" stands for a part without text); call: Optional function call
Event(final, content, call) == [final |-> final, content |-> content, call |-> call]

\* contents a final event may carry
FinalContents == { Nothing, Some(<<"72F">>) }

FinalEvents == { Event(TRUE, c, Nothing) : c \in FinalContents }

\* the text of a part of event.content.parts; "" is a part without text
PartTexts == {"", "72F", "Sunny"}

\* every content of up to MaxParts parts, and no content at all
AnyFinalContents == { Nothing } \cup { Some(texts) : texts \in SeqsUpTo(PartTexts, MaxParts) }

AnyFinalEvents == { Event(TRUE, c, Nothing) : c \in AnyFinalContents }

\* the model asks for send_message(agent_name, task)
CallEvents == { Event(FALSE, Nothing, Some([agent_name |-> a, task |-> "task"])) : a \in AgentNames }

\* any other non-final event (a function response, a partial answer)
OtherEvents == { Event(FALSE, Nothing, Nothing) }

RunnerEvents == FinalEvents \cup CallEvents \cup OtherEvents

\* ---- replies of a peer (a2a SendMessageResponse) ----
TextPart(text, metadata) == [kind |-> "text", text |-> text, metadata |-> metadata]

Artifact(parts) == [artifactId |-> "artifact", parts |-> parts]

\* artifacts: Optional[list[Artifact]]
Task(state, artifacts) == [type |-> "Task", state |-> state, artifacts |-> artifacts]

Message == [type |-> "Message", state |-> "none", artifacts |-> Nothing]

NoResult == [type |-> "none", state |-> "none", artifacts |-> Nothing]

SuccessResponse(result) == [root |-> "SendMessageSuccessResponse", result |-> result]

ErrorResponse == [root |-> "JSONRPCErrorResponse", result |-> NoResult]

P72F == TextPart("72F", Nothing)

PSunny == TextPart("sunny", Some("note"))

PartLists == SeqsUpTo({P72F, PSunny}, MaxParts)

ArtifactLists ==
    { Nothing } \cup { Some(a) : a \in SeqsUpTo({Artifact(parts) : parts \in PartLists}, MaxArtifacts) }

TaskStates == {"completed", "working", "failed", "input-required"}

TaskReplies == { SuccessResponse(Task(s, a)) : s \in TaskStates, a \in ArtifactLists }

Replies == TaskReplies \cup { SuccessResponse(Message), ErrorResponse }

\* what happens to the one request of a delegation: the peer replies, or the
\* transport fails (timeout, connection refused, malformed body)
TransportError == [root |-> "TransportError", result |-> NoResult]

SendOutcomes == Replies \cup { TransportError }

\* the outcomes drawn in the query turns of Spec: one of each kind
TurnOutcomes ==
    { TransportError, ErrorResponse,
      SuccessResponse(Task("completed", Some(<<Artifact(<<P72F>>)>>))),
      SuccessResponse(Task("working", Some(<<Artifact(<<P72F>>)>>))) }

\* ---- locals of a turn ----
NoOutcome == [root |-> "none", result |-> NoResult]

NoRequest == [id |-> 0, messageId |-> 0, taskId |-> 0, contextId |-> 0,
              agent_name |-> "none", session_id |-> "none", turn |-> "none"]

IdleTurn == [session_id |-> "none", session |-> None, events |-> << >>, out |-> << >>,
             call |-> Nothing, request |-> NoRequest, last_outcome |-> NoOutcome,
             tool_results |-> << >>, exception |-> None]

\* a session's state dict as created by stream: state={}
EmptyState == << >>

TypeOK ==
    /\ disc_pc \in {"new", "loop", "done", "raised"}
    /\ \A t \in Turns : pc[t] \in {"idle", "get_session", "create_session", "run",
                                   "tool", "await_send", "done", "raised"}
    /\ DOMAIN sessions \subseteq SessionIds
    /\ Len(sent) <= MaxDelegations

(***************************************************************************)
(* stream: the dict yielded for one event of the runner.                   *)
(***************************************************************************)
Thinking == <<"The orchestrator agent is thinking...">>

\* "\n".join([p.text for p in event.content.parts if p.text]): the texts
\* that are joined, in order (a string is the sequence of its lines)
JoinTexts(parts) == SelectSeq(parts, LAMBDA text : text # "")

\* the response of a final event: joined only if the event has a content,
\* the content has parts and the first part has a text; "" otherwise
FinalResponse(event) ==
    IF /\ event.content # Nothing
       /\ event.content[1] # << >>
       /\ event.content[1][1] # ""
    THEN JoinTexts(event.content[1])
    ELSE << >>

\* the body of the async for: one dict per event
StreamYield_EmptyFinalIsProgress(event) ==
    IF event.final /\ FinalResponse(event) # << >>
    THEN [is_task_complete |-> TRUE, key |-> "content", text |-> FinalResponse(event)]
    ELSE [is_task_complete |-> FALSE, key |-> "updates", text |-> Thinking]

StreamYield(event) ==
    IF event.final
    THEN [is_task_complete |-> TRUE, key |-> "content", text |-> FinalResponse(event)]
    ELSE [is_task_complete |-> FALSE, key |-> "updates", text |-> Thinking]

(***************************************************************************)
(* send_message: the delegation tool.                                      *)
(***************************************************************************)
\* state.get(key, default) on the session's state
StateGet(state, key, default) == IF key \in DOMAIN state THEN state[key] ELSE default

\* the outcome of a call: a returned value or a raised exception
Returned(value) == [raised |-> FALSE, exception |-> None, value |-> value]

Raised(exception) == [raised |-> TRUE, exception |-> exception, value |-> [is_error |-> TRUE, text |-> "", parts |-> << >>]]

\* the two shapes send_message returns: the error string, or the list resp
ErrorString == [is_error |-> TRUE, text |-> "Error: Failed to get a valid response from the agent.", parts |-> << >>]

PartsList(parts) == [is_error |-> FALSE, text |-> "", parts |-> parts]

\* if agent_name not in self.remote_agent_connections: raise ValueError
\* (a stored connection object is always truthy, so `if not client` never
\* raises)
LookupClient(connections, agent_name) ==
    IF ~DictHas(connections, agent_name)
    THEN Raised("ValueError")
    ELSE Returned(DictGet(connections, agent_name))

\* the ids of one call: uuid4() is evaluated three times, in this order,
\* whether or not the state holds task_id / context_id
BuildRequest_MessageIdFromTask(state, agent_name, session_id, t, uuid) ==
    LET task_id    == StateGet(state, "task_id", uuid)
        context_id == StateGet(state, "context_id", uuid + 1)
        message_id == task_id
    IN  [id |-> uuid + 2, messageId |-> message_id, taskId |-> task_id,
         contextId |-> context_id, agent_name |-> agent_name,
         session_id |-> session_id, turn |-> t]

BuildRequest_SharedDefaults(state, agent_name, session_id, t, uuid) ==
    LET task_id    == StateGet(state, "task_id", 1)
        context_id == StateGet(state, "context_id", 1 + 1)
        message_id == uuid + 2
    IN  [id |-> message_id, messageId |-> message_id, taskId |-> task_id,
         contextId |-> context_id, agent_name |-> agent_name,
         session_id |-> session_id, turn |-> t]

BuildRequest(state, agent_name, session_id, t, uuid) ==
    LET task_id    == StateGet(state, "task_id", uuid)
        context_id == StateGet(state, "context_id", uuid + 1)
        message_id == uuid + 2
    IN  [id |-> message_id, messageId |-> message_id, taskId |-> task_id,
         contextId |-> context_id, agent_name |-> agent_name,
         session_id |-> session_id, turn |-> t]

\* model_dump_json(exclude_none=True) then json.loads, on a part
DumpPart(part) ==
    IF part.metadata = Nothing
    THEN [kind |-> part.kind, text |-> part.text]
    ELSE [kind |-> part.kind, text |-> part.text, metadata |-> part.metadata[1]]

DumpArtifact(artifact) ==
    [artifactId |-> artifact.artifactId,
     parts |-> [i \in 1..Len(artifact.parts) |-> DumpPart(artifact.parts[i])]]

\* json_content["result"]: the key artifacts is left out when it is None
DumpResult(result) ==
    IF result.artifacts = Nothing
    THEN [kind |-> "task", status |-> result.state]
    ELSE [kind |-> "task", status |-> result.state,
          artifacts |-> [i \in 1..Len(result.artifacts[1]) |-> DumpArtifact(result.artifacts[1][i])]]

\* d.get(key) is truthy
Truthy(d, key) == key \in DOMAIN d /\ d[key] # << >>

\* the loop over the artifacts: resp.extend(artifact["parts"])
RECURSIVE ExtendParts(_, _, _)
ExtendParts(resp, artifacts, i) ==
    IF i > Len(artifacts) THEN resp
    ELSE IF Truthy(artifacts[i], "parts")
         THEN ExtendParts(resp \o artifacts[i].parts, artifacts, i + 1)
         ELSE ExtendParts(resp, artifacts, i + 1)

\* only the first artifact is read
CollectParts_FirstArtifactOnly(json_result) ==
    IF Truthy(json_result, "artifacts")
    THEN ExtendParts(<< >>, <<json_result.artifacts[1]>>, 1)
    ELSE << >>

CollectParts(json_result) ==
    IF Truthy(json_result, "artifacts")
    THEN ExtendParts(<< >>, json_result.artifacts, 1)
    ELSE << >>

\* the result's type is not looked at
IsTaskSuccess_EnvelopeOnly(send_response) ==
    send_response.root = "SendMessageSuccessResponse"

\* isinstance(send_response.root, SendMessageSuccessResponse) and
\* isinstance(send_response.root.result, Task)
IsTaskSuccess(send_response) ==
    /\ send_response.root = "SendMessageSuccessResponse"
    /\ send_response.result.type = "Task"

\* send_message after the await: the value handed back to the model
HandleResponse(send_response) ==
    IF ~IsTaskSuccess(send_response)
    THEN Returned(ErrorString)
    ELSE Returned(PartsList(CollectParts(DumpResult(send_response.result))))

\* await client.send_message(message_request): the reply of the peer is
\* returned as it was deserialized; an error the connection's send raises
\* is raised by the await, which has no handler around it
ConnectionSend(outcome) ==
    IF outcome.root = "TransportError" THEN Raised("ConnectError") ELSE Returned(outcome)

(***************************************************************************)
(* The steps of a query turn.                                              *)
(***************************************************************************)
\* function calls the runner has announced and send_message has not yet
\* passed on to a connection
PendingCalls == Cardinality({t \in Turns : pc[t] = "tool"})

\* a caller invokes stream(query, session_id) on the initialized instance
StreamCall(t, session_id) ==
    /\ disc_pc = "done"
    /\ pc[t] = "idle"
    /\ pc' = [pc EXCEPT ![t] = "get_session"]
    /\ turn' = [turn EXCEPT ![t] = [IdleTurn EXCEPT !.session_id = session_id]]
    /\ UNCHANGED <<sessions, created, store_yields, sent, uuid_next, steps_left>>
    /\ UNCHANGED disc_vars

\* the session create_session(state={}) stores: its state, and the number
\* of events the runner has recorded in it
NewSession == [state |-> EmptyState, history |-> 0]

\* what create_session(state={}, session_id=...) does to the store: a new
\* session is put under the id, whatever was there
CreateSession_ResetsStore(t) ==
    /\ sessions' = [s \in {turn[t].session_id} |-> NewSession]
    /\ created' = [created EXCEPT ![turn[t].session_id] = @ + 1]

CreateSession(t) ==
    /\ sessions' = [s \in DOMAIN sessions \cup {turn[t].session_id} |->
                       IF s = turn[t].session_id THEN NewSession ELSE sessions[s]]
    /\ created' = [created EXCEPT ![turn[t].session_id] = @ + 1]

\* session = await session_service.get_session(...), up to the next point
\* at which stream waits.  A session that is found takes stream to
\* run_async.  With session None, stream goes on to await create_session:
\* a store whose calls give up control leaves the turn waiting there, with
\* other turns free to run; a store whose calls complete at once has
\* created the session before any other turn runs.
StreamGetSession_NeverFinds(t) ==
    /\ pc[t] = "get_session"
    /\ IF store_yields
       THEN /\ turn' = [turn EXCEPT ![t].session = None]
            /\ pc' = [pc EXCEPT ![t] = "create_session"]
            /\ UNCHANGED <<sessions, created>>
       ELSE /\ CreateSession(t)
            /\ turn' = [turn EXCEPT ![t].session = "Session"]
            /\ pc' = [pc EXCEPT ![t] = "run"]
    /\ UNCHANGED <<store_yields, sent, uuid_next, steps_left>>
    /\ UNCHANGED disc_vars

StreamGetSession(t) ==
    /\ pc[t] = "get_session"
    /\ IF turn[t].session_id \in DOMAIN sessions
       THEN /\ turn' = [turn EXCEPT ![t].session = "Session"]
            /\ pc' = [pc EXCEPT ![t] = "run"]
            /\ UNCHANGED <<sessions, created>>
       ELSE IF store_yields
            THEN /\ turn' = [turn EXCEPT ![t].session = None]
                 /\ pc' = [pc EXCEPT ![t] = "create_session"]
                 /\ UNCHANGED <<sessions, created>>
            ELSE /\ CreateSession(t)
                 /\ turn' = [turn EXCEPT ![t].session = "Session"]
                 /\ pc' = [pc EXCEPT ![t] = "run"]
    /\ UNCHANGED <<store_yields, sent, uuid_next, steps_left>>
    /\ UNCHANGED disc_vars

\* if session is None: the awaited create_session(...) of a store that gave
\* up control completes
StreamCreateSession(t) ==
    /\ pc[t] = "create_session"
    /\ CreateSession(t)
    /\ turn' = [turn EXCEPT ![t].session = "Session"]
    /\ pc' = [pc EXCEPT ![t] = "run"]
    /\ UNCHANGED <<store_yields, sent, uuid_next, steps_left>>
    /\ UNCHANGED disc_vars

\* run_async yields an event, which the runner has recorded in the session
\* of the session_id it was given; stream yields its dict.  An event that
\* asks for send_message leaves the tool call to be executed by the runner.
StreamEvent(t, event) ==
    /\ pc[t] = "run"
    /\ steps_left > 0
    /\ event.call # Nothing => Len(sent) + PendingCalls < MaxDelegations
    /\ turn' = [turn EXCEPT ![t].events = Append(@, event),
                            ![t].out = Append(@, StreamYield(event)),
                            ![t].call = event.call]
    /\ pc' = [pc EXCEPT ![t] = IF event.call # Nothing THEN "tool" ELSE "run"]
    /\ sessions' = [sessions EXCEPT ![turn[t].session_id].history = @ + 1]
    /\ steps_left' = steps_left - 1
    /\ UNCHANGED <<created, store_yields, sent, uuid_next>>
    /\ UNCHANGED disc_vars

\* the language model call faults: run_async raises, and stream, which has
\* no handler around its loop, raises to its caller
OracleFault(t) ==
    /\ pc[t] = "run"
    /\ turn' = [turn EXCEPT ![t].exception = "OracleError"]
    /\ pc' = [pc EXCEPT ![t] = "raised"]
    /\ UNCHANGED <<sessions, created, store_yields, sent, uuid_next, steps_left>>
    /\ UNCHANGED disc_vars

\* run_async is exhausted: the async for ends and stream returns
StreamEnd(t) ==
    /\ pc[t] = "run"
    /\ pc' = [pc EXCEPT ![t] = "done"]
    /\ UNCHANGED <<turn, sessions, created, store_yields, sent, uuid_next, steps_left>>
    /\ UNCHANGED disc_vars

\* send_message up to `await client.send_message(message_request)`: the
\* lookup, the ids, the request.  A raise leaves send_message, the runner
\* and stream.
SendMessageCall_DoesNotAwait(t) ==
    /\ pc[t] = "tool"
    /\ LET call   == turn[t].call[1]
           client == LookupClient(remote_agent_connections, call.agent_name)
       IN  IF client.raised
           THEN /\ turn' = [turn EXCEPT ![t].exception = client.exception,
                                        ![t].call = Nothing]
                /\ pc' = [pc EXCEPT ![t] = "raised"]
                /\ UNCHANGED <<sent, uuid_next>>
           ELSE LET request == BuildRequest(sessions[turn[t].session_id].state, call.agent_name,
                                            turn[t].session_id, t, uuid_next)
                IN  /\ turn' = [turn EXCEPT ![t].request = request,
                                            ![t].call = Nothing]
                    /\ sent' = Append(sent, request)
                    /\ uuid_next' = uuid_next + 3
                    /\ pc' = [pc EXCEPT ![t] = "run"]
    /\ UNCHANGED <<sessions, created, store_yields, steps_left>>
    /\ UNCHANGED disc_vars

SendMessageCall_PopsClient(t) ==
    /\ pc[t] = "tool"
    /\ LET call   == turn[t].call[1]
           client == LookupClient(remote_agent_connections, call.agent_name)
       IN  IF client.raised
           THEN /\ turn' = [turn EXCEPT ![t].exception = client.exception,
                                        ![t].call = Nothing]
                /\ pc' = [pc EXCEPT ![t] = "raised"]
                /\ UNCHANGED <<sent, uuid_next, remote_agent_connections>>
           ELSE LET request == BuildRequest(sessions[turn[t].session_id].state, call.agent_name,
                                            turn[t].session_id, t, uuid_next)
                IN  /\ turn' = [turn EXCEPT ![t].request = request]
                    /\ sent' = Append(sent, request)
                    /\ uuid_next' = uuid_next + 3
                    /\ pc' = [pc EXCEPT ![t] = "await_send"]
                    /\ remote_agent_connections' =
                           SelectSeq(remote_agent_connections,
                                     LAMBDA e : e.key # call.agent_name)
    /\ UNCHANGED <<sessions, created, store_yields, steps_left>>
    /\ UNCHANGED <<remote_agent_addresses, disc_pc, disc_i, cards, agents, printed>>
    /\ UNCHANGED run_vars

SendMessageCall(t) ==
    /\ pc[t] = "tool"
    /\ LET call   == turn[t].call[1]
           client == LookupClient(remote_agent_connections, call.agent_name)
       IN  IF client.raised
           THEN /\ turn' = [turn EXCEPT ![t].exception = client.exception,
                                        ![t].call = Nothing]
                /\ pc' = [pc EXCEPT ![t] = "raised"]
                /\ UNCHANGED <<sent, uuid_next>>
           ELSE LET request == BuildRequest(sessions[turn[t].session_id].state, call.agent_name,
                                            turn[t].session_id, t, uuid_next)
                IN  /\ turn' = [turn EXCEPT ![t].request = request]
                    /\ sent' = Append(sent, request)
                    /\ uuid_next' = uuid_next + 3
                    /\ pc' = [pc EXCEPT ![t] = "await_send"]
    /\ UNCHANGED <<sessions, created, store_yields, steps_left>>
    /\ UNCHANGED disc_vars

\* send_message from the await on: the connection's answer is turned into
\* the value handed back to the language model
SendMessageReturn_RetriesOnFailure(t, outcome) ==
    /\ pc[t] = "await_send"
    /\ LET send_response == ConnectionSend(outcome)
           result == IF send_response.raised THEN send_response
                     ELSE HandleResponse(send_response.value)
       IN  IF result.raised
           THEN /\ turn' = [turn EXCEPT ![t].exception = result.exception,
                                        ![t].last_outcome = outcome,
                                        ![t].call = Nothing,
                                        ![t].request = NoRequest]
                /\ pc' = [pc EXCEPT ![t] = "raised"]
                /\ UNCHANGED sent
           ELSE /\ turn' = [turn EXCEPT ![t].tool_results =
                                            Append(@, [request |-> turn[t].request,
                                                       outcome |-> outcome,
                                                       value |-> result.value]),
                                        ![t].last_outcome = outcome,
                                        ![t].call = Nothing,
                                        ![t].request = NoRequest]
                /\ pc' = [pc EXCEPT ![t] = "run"]
                /\ sent' = IF IsTaskSuccess(send_response.value) THEN sent
                           ELSE Append(sent, turn[t].request)
    /\ UNCHANGED <<sessions, created, store_yields, uuid_next, steps_left>>
    /\ UNCHANGED disc_vars

SendMessageReturn(t, outcome) ==
    /\ pc[t] = "await_send"
    /\ LET send_response == ConnectionSend(outcome)
           result == IF send_response.raised THEN send_response
                     ELSE HandleResponse(send_response.value)
       IN  IF result.raised
           THEN /\ turn' = [turn EXCEPT ![t].exception = result.exception,
                                        ![t].last_outcome = outcome,
                                        ![t].call = Nothing,
                                        ![t].request = NoRequest]
                /\ pc' = [pc EXCEPT ![t] = "raised"]
           ELSE /\ turn' = [turn EXCEPT ![t].tool_results =
                                            Append(@, [request |-> turn[t].request,
                                                       outcome |-> outcome,
                                                       value |-> result.value]),
                                        ![t].last_outcome = outcome,
                                        ![t].call = Nothing,
                                        ![t].request = NoRequest]
                /\ pc' = [pc EXCEPT ![t] = "run"]
    /\ UNCHANGED <<sessions, created, store_yields, sent, uuid_next, steps_left>>
    /\ UNCHANGED disc_vars

\* the connection's answer arrives, drawn from `outcomes`
SendMessageResume(t, outcomes) ==
    /\ pc[t] = "await_send"
    /\ \E outcome \in outcomes : SendMessageReturn(t, outcome)

(***************************************************************************)
(* Specifications.                                                         *)
(***************************************************************************)
\* the state after OrchestratorAgent.__init__
Constructed ==
    /\ disc_pc = "new"
    /\ disc_i = 1
    /\ remote_agent_connections = EmptyDict
    /\ cards = EmptyDict
    /\ agents = << >>
    /\ printed = << >>
    /\ disc_run = 1
    /\ inst_run = 1
    /\ prev_registry = << >>
    /\ pc = [t \in Turns |-> "idle"]
    /\ turn = [t \in Turns |-> IdleTurn]
    /\ sessions = << >>
    /\ created = [s \in SessionIds |-> 0]
    /\ sent = << >>
    /\ uuid_next = 1
    /\ steps_left = MaxTotalSteps

Discovery ==
    \/ DiscoverStart
    \/ DiscoverCard
    \/ DiscoverConnectError
    \/ DiscoverException
    \/ DiscoverFinish

\* discovery alone, over every list of up to MaxAddrs addresses, called up
\* to MaxRuns times
InitDiscovery ==
    /\ remote_agent_addresses \in AddressLists
    /\ store_yields = TRUE
    /\ Constructed

NextDiscovery ==
    \/ Discovery
    \/ RediscoverSame
    \/ RediscoverFresh

SpecDiscovery == InitDiscovery /\ [][NextDiscovery]_vars

\* the process: discovery over the configured addresses, then query turns.
\* The awaited calls of the session service are points at which a turn may
\* give up control; this admits every schedule of the turns, those of a
\* store whose calls complete at once included.
Init ==
    /\ remote_agent_addresses \in ConfiguredAddresses
    /\ store_yields = TRUE
    /\ Constructed

Next ==
    \/ Discovery
    \/ \E t \in Turns, session_id \in SessionIds : StreamCall(t, session_id)
    \/ \E t \in Turns : StreamGetSession(t)
    \/ \E t \in Turns : StreamCreateSession(t)
    \/ \E t \in Turns : OracleFault(t)
    \/ \E t \in Turns, event \in RunnerEvents : StreamEvent(t, event)
    \/ \E t \in Turns : StreamEnd(t)
    \/ \E t \in Turns : SendMessageCall(t)
    \/ \E t \in Turns : SendMessageResume(t, TurnOutcomes)

Spec == Init /\ [][Next]_vars

\* one query turn whose first step is a delegation, the peer's reply drawn
\* from every shape in SendOutcomes
NextReply ==
    \/ Discovery
    \/ StreamCall("t1", "s1")
    \/ StreamGetSession("t1")
    \/ StreamCreateSession("t1")
    \/ \E event \in CallEvents : turn["t1"].events = << >> /\ StreamEvent("t1", event)
    \/ SendMessageCall("t1")
    \/ SendMessageResume("t1", SendOutcomes)
    \/ \E event \in FinalEvents : turn["t1"].events # << >> /\ StreamEvent("t1", event)
    \/ StreamEnd("t1")

SpecReply == Init /\ [][NextReply]_vars

\* one query turn answered directly, its final events drawn from every
\* content in AnyFinalContents
NextFinal ==
    \/ Discovery
    \/ StreamCall("t1", "s1")
    \/ StreamGetSession("t1")
    \/ StreamCreateSession("t1")
    \/ \E event \in AnyFinalEvents :
           Len(turn["t1"].events) < MaxFinalEvents /\ StreamEvent("t1", event)
    \/ StreamEnd("t1")

SpecFinal == Init /\ [][NextFinal]_vars

\* the turns' sessions alone: two turns answered without delegation, over a
\* session store of either kind
InitSessions ==
    /\ remote_agent_addresses \in ConfiguredAddresses
    /\ store_yields \in BOOLEAN
    /\ Constructed

NextSessions ==
    \/ Discovery
    \/ \E t \in Turns, session_id \in SessionIds : StreamCall(t, session_id)
    \/ \E t \in Turns : StreamGetSession(t)
    \/ \E t \in Turns : StreamCreateSession(t)
    \/ \E t \in Turns, event \in FinalEvents \cup OtherEvents : StreamEvent(t, event)
    \/ \E t \in Turns : StreamEnd(t)

SpecSessions == InitSessions /\ [][NextSessions]_vars

(***************************************************************************)
(* Properties.                                                             *)
(***************************************************************************)
Last(seq) == seq[Len(seq)]

\* the addresses the discovery calls on this instance have dealt with so far
Processed ==
    { remote_agent_addresses[i] :
          i \in 1..(IF inst_run > 1 THEN Len(remote_agent_addresses) ELSE disc_i - 1) }

Succeeded(address) == Peer(address).kind = "card"

\* the connection stored in the registry for an address, if any
ConnectionsFor(address) ==
    { i \in 1..Len(remote_agent_connections) :
          remote_agent_connections[i].value.agent_url = address }

\* a reply that is a success envelope wrapping a Task
WrapsTask(reply) == reply.root = "SendMessageSuccessResponse" /\ reply.result.type = "Task"

\* a stream that is over: returned or raised
Over(t) == pc[t] \in {"done", "raised"}

\* C1: every stream emits zero or more progress events, then exactly one
\* terminal event, and nothing after the terminal event.
C1_StreamShape ==
    \A t \in Turns :
        LET out == turn[t].out
        IN  /\ \A i \in 1..(Len(out) - 1) : ~out[i].is_task_complete
            /\ Over(t) => (out # << >> /\ Last(out).is_task_complete)

\* C2: a delegation to a name that is not in the registry never raises out
\* of the router: no stream ends with the ValueError of the lookup.
C2_UnknownAgentRecoverable ==
    \A t \in Turns : ~(pc[t] = "raised" /\ turn[t].exception = "ValueError")

\* C3: two delegations of the same session carry the same task id and the
\* same context id.
C3_StableSessionIds ==
    \A i, j \in 1..Len(sent) :
        sent[i].session_id = sent[j].session_id
            => (sent[i].taskId = sent[j].taskId /\ sent[i].contextId = sent[j].contextId)

\* C4: discovery is partial-failure tolerant: it never raises; every
\* address dealt with whose peer answered with a card has an entry under the
\* card's name in both maps; every entry is the connection and card of such
\* an address, under its card's name; a failed address has no entry.
C4_PartialFailureTolerant ==
    /\ disc_pc # "raised"
    /\ \A a \in Processed :
           IF Succeeded(a)
           THEN /\ DictHas(remote_agent_connections, Peer(a).card.name)
                /\ DictHas(cards, Peer(a).card.name)
           ELSE ConnectionsFor(a) = {}
    /\ \A i \in 1..Len(remote_agent_connections) :
           LET e == remote_agent_connections[i]
           IN  /\ e.value.agent_url \in Processed
               /\ Succeeded(e.value.agent_url)
               /\ e.value.agent_card = Peer(e.value.agent_url).card
               /\ e.key = e.value.agent_card.name
    /\ \A i \in 1..Len(cards) :
           \E a \in Processed : Succeeded(a) /\ cards[i].value = Peer(a).card
                                /\ cards[i].key = Peer(a).card.name
    /\ DictKeySet(remote_agent_connections) = { Peer(a).card.name : a \in {b \in Processed : Succeeded(b)} }

\* C4 witness: discovery over [A_ok, A_down, B_ok] is done, with the two
\* entries of A_ok and B_ok and the failure of A_down printed.
C4_Witness ==
    /\ disc_pc = "done"
    /\ remote_agent_addresses = <<"A_ok", "A_down", "B_ok">>
    /\ DictKeys(remote_agent_connections) = <<"Weather_Agent", "Calendar_Agent">>
    /\ Len(printed) = 1

\* the step of a turn in which send_message resumes after its await
Resumes(t) == pc[t] = "await_send" /\ pc'[t] # "await_send"

\* C5: a transport error during a delegation is handed back to the model as
\* the failure value; send_message does not raise and the turn goes on.
C5_TransportErrorIsFailure ==
    [][\A t \in Turns :
          (Resumes(t) /\ turn'[t].last_outcome = TransportError)
              => /\ pc'[t] = "run"
                 /\ turn'[t].exception = None
                 /\ Len(turn'[t].tool_results) = Len(turn[t].tool_results) + 1
                 /\ Last(turn'[t].tool_results).value = ErrorString]_vars

\* C6: a reply that is an error envelope, or a success envelope that does
\* not wrap a Task, yields a failure with a non-empty reason, as a value.
C6_NonTaskReplyIsFailure ==
    [][\A t \in Turns :
          (Resumes(t) /\ turn'[t].last_outcome \in Replies
                      /\ ~WrapsTask(turn'[t].last_outcome))
              => /\ pc'[t] = "run"
                 /\ turn'[t].exception = None
                 /\ Len(turn'[t].tool_results) = Len(turn[t].tool_results) + 1
                 /\ Last(turn'[t].tool_results).value.is_error
                 /\ Last(turn'[t].tool_results).value.text # ""]_vars

\* C6 witness: a success envelope wrapping a Message has been answered with
\* the failure value and its reason.
C6_Witness ==
    \E t \in Turns :
        /\ turn[t].tool_results # << >>
        /\ Last(turn[t].tool_results).outcome = SuccessResponse(Message)
        /\ Last(turn[t].tool_results).value.is_error
        /\ Last(turn[t].tool_results).value.text # ""

\* C7: a delegation result is a success only if the reply is a success
\* envelope whose Task is in the completed state.
C7_SuccessOnlyIfCompleted ==
    \A t \in Turns :
        \A i \in 1..Len(turn[t].tool_results) :
            LET r == turn[t].tool_results[i]
            IN  ~r.value.is_error
                    => (WrapsTask(r.outcome) /\ r.outcome.result.state = "completed")

\* the parts of every artifact of a Task, in artifact order then part order,
\* each in its JSON form
RECURSIVE Concat(_)
Concat(seqs) == IF seqs = << >> THEN << >> ELSE Head(seqs) \o Concat(Tail(seqs))

AllParts(task) ==
    IF task.artifacts = Nothing THEN << >>
    ELSE Concat([i \in 1..Len(task.artifacts[1]) |->
                    [j \in 1..Len(task.artifacts[1][i].parts) |->
                        DumpPart(task.artifacts[1][i].parts[j])]])

\* C8: for a success envelope wrapping a Task, the value handed back is the
\* list of the parts of every artifact, in order, nothing added or dropped.
C8_ArtifactsFlattened ==
    \A t \in Turns :
        \A i \in 1..Len(turn[t].tool_results) :
            LET r == turn[t].tool_results[i]
            IN  WrapsTask(r.outcome)
                    => (~r.value.is_error /\ r.value.parts = AllParts(r.outcome.result))

\* C8 witness: a Task with two artifacts of two and one parts came back as
\* the three parts in order.
C8_Witness ==
    \E t \in Turns :
        /\ turn[t].tool_results # << >>
        /\ LET r == Last(turn[t].tool_results)
           IN  /\ r.outcome = SuccessResponse(Task("completed",
                                  Some(<<Artifact(<<PSunny, P72F>>), Artifact(<<P72F>>)>>)))
               /\ r.value.parts = <<DumpPart(PSunny), DumpPart(P72F), DumpPart(P72F)>>

\* C9: a fault of the language model does not raise out of stream: the
\* stream ends with a terminal event.
C9_OracleFaultBecomesTerminal ==
    \A t \in Turns :
        turn[t].exception = "OracleError"
            => /\ pc[t] # "raised"
               /\ turn[t].out # << >>
               /\ Last(turn[t].out).is_task_complete

\* C10: after discovery, the registry holds a connection for an address if
\* and only if discovery for that address succeeded.
C10_ConnectionIffSucceeded ==
    disc_pc = "done"
        => \A a \in Processed : (ConnectionsFor(a) # {}) <=> Succeeded(a)

\* C11: in every state, before, during and after discovery and also after an
\* address has failed, the card map and the connection map have the same
\* keys, and the connection under a name was built from the card under
\* that name.
C11_CardsMatchConnections ==
    /\ DictKeys(cards) = DictKeys(remote_agent_connections)
    /\ \A name \in DictKeySet(cards) :
           DictGet(remote_agent_connections, name).agent_card = DictGet(cards, name)

\* discovery is past a failed address and past two peers of one name, the
\* second of which replaced the entry of the first
C11_Witness ==
    /\ printed # << >>
    /\ Len(cards) = 1
    /\ {"A_ok", "A_twin"} \subseteq Processed
    /\ DictGet(remote_agent_connections, "Weather_Agent").agent_url = "A_twin"

\* the mapping a dict holds, whatever the order of its entries
Mapping(d) == { <<d[i].key, d[i].value>> : i \in 1..Len(d) }

\* C12: discovery is idempotent.  When the same discovery call has run
\* again against the same peers, on the same orchestrator or on a fresh
\* one, it leaves the same mapping of names to cards and the same listing
\* as the call before it.
C12_DiscoveryIdempotent ==
    (disc_pc = "done" /\ prev_registry # << >>) =>
        /\ Mapping(cards) = Mapping(prev_registry[1].cards)
        /\ agents = prev_registry[1].agents

\* a second call on the same instance has finished over two peers of one
\* name, a failed address and a third peer
C12_Witness ==
    /\ disc_pc = "done"
    /\ disc_run = 2
    /\ remote_agent_addresses = <<"A_ok", "A_twin", "A_down">>
    /\ prev_registry # << >>
    /\ Len(printed) = 2
    /\ Len(cards) = 1

\* a step of a query turn: of stream or of the send_message it runs
TurnStep == pc' # pc \/ turn' # turn

\* C13: once discovery is done, no step of a query turn, whether its
\* delegation succeeds, fails or is rejected, changes the connection map,
\* the card map or the listing.
C13_TurnsLeaveRegistry ==
    [][(disc_pc = "done" /\ TurnStep)
          => UNCHANGED <<remote_agent_connections, cards, agents>>]_vars

\* over a non-empty registry, one turn has had a delegation answered with a
\* failure and another turn's delegation has been rejected
C13_Witness ==
    /\ disc_pc = "done"
    /\ cards # << >>
    /\ \E t, u \in Turns :
           /\ turn[t].tool_results # << >>
           /\ ~WrapsTask(Last(turn[t].tool_results).outcome)
           /\ pc[u] = "raised"
           /\ turn[u].exception = "ValueError"

\* the task id and the context id a request carries
SessionScopedIds(request) == {request.taskId, request.contextId}

\* C14: delegations of sessions with distinct ids never share a task id or a
\* context id, whatever the interleaving of their turns.
C14_DistinctSessionsDistinctIds ==
    \A i, j \in 1..Len(sent) :
        sent[i].session_id # sent[j].session_id
            => SessionScopedIds(sent[i]) \cap SessionScopedIds(sent[j]) = {}

\* two turns of different sessions each have a delegation in flight
C14_Witness ==
    /\ pc["t1"] = "await_send"
    /\ pc["t2"] = "await_send"
    /\ turn["t1"].session_id # turn["t2"].session_id
    /\ Len(sent) = 2

\* what the session service holds under a session id
StoredSession(session_id) ==
    IF session_id \in DOMAIN sessions THEN <<sessions[session_id]>> ELSE << >>

\* turn t takes a step
Acts(t) == pc'[t] # pc[t] \/ turn'[t] # turn[t]

\* C15: turns on different session ids do not interfere: a step of a stream
\* call for one session id, the creation of its session and its delegations
\* included, leaves the stored session of every other session id as it was.
C15_OtherSessionsUntouched ==
    [][\A t \in Turns :
          Acts(t) => \A s \in SessionIds \ {turn'[t].session_id} :
                         StoredSession(s)' = StoredSession(s)]_vars

\* both sessions are stored with recorded events; the turn of s1 has created
\* its session and had a delegation answered next to the turn of s2
C15_Witness ==
    /\ turn["t1"].session_id = "s1"
    /\ turn["t2"].session_id = "s2"
    /\ DOMAIN sessions = {"s1", "s2"}
    /\ sessions["s1"].history > 0
    /\ sessions["s2"].history > 0
    /\ turn["t1"].tool_results # << >>

\* the requests a turn has handed to connections, in the order of issue
RequestsOf(t) == SelectSeq(sent, LAMBDA request : request.turn = t)

C17_FreshMessageIds ==
    /\ \A i, j \in 1..Len(sent) : i # j => sent[i].messageId # sent[j].messageId
    /\ \A i \in 1..Len(sent) : sent[i].id = sent[i].messageId

\* one turn has sent two requests, both of the same session
C17_Witness ==
    /\ Len(sent) = 2
    /\ sent[1].turn = sent[2].turn
    /\ sent[1].session_id = sent[2].session_id

\* the delegation requests of the language model that send_message has
\* been run for, in order
CallsMade(t) ==
    LET calls == SelectSeq(turn[t].events, LAMBDA event : event.call # Nothing)
    IN  IF pc[t] = "tool" THEN SubSeq(calls, 1, Len(calls) - 1) ELSE calls

\* those of them that name a registered agent
RegisteredCalls(t) ==
    SelectSeq(CallsMade(t),
              LAMBDA event : DictHas(remote_agent_connections, event.call[1].agent_name))

\* C18: each delegation issues exactly one request: the requests a turn has
\* handed to connections are, one for one and in order, its delegations to
\* registered agents; none is sent again after a failure or a non-success
\* reply, and none is sent for an unregistered agent.
C18_OneRequestPerDelegation ==
    \A t \in Turns :
        LET requests == RequestsOf(t)
            calls    == RegisteredCalls(t)
        IN  /\ Len(requests) = Len(calls)
            /\ \A k \in 1..Len(requests) :
                   requests[k].agent_name = calls[k].call[1].agent_name

\* one turn is over after a delegation answered with a failure, another
\* after a delegation to an unregistered agent
C18_Witness ==
    \E t, u \in Turns :
        /\ pc[t] = "done"
        /\ Len(turn[t].tool_results) = 1
        /\ ~WrapsTask(turn[t].tool_results[1].outcome)
        /\ Len(RequestsOf(t)) = 1
        /\ pc[u] = "raised"
        /\ turn[u].exception = "ValueError"
        /\ RequestsOf(u) = << >>

\* C19: stream maps the steps of the language model to its events one for
\* one and in order: as many events are emitted as steps were taken, the
\* k-th emitted event is a progress event if the k-th step is not final and
\* a terminal event if it is final.
C19_EventsOneForOne ==
    \A t \in Turns :
        LET out    == turn[t].out
            events == turn[t].events
        IN  /\ Len(out) = Len(events)
            /\ \A k \in 1..Len(events) :
                   IF events[k].final
                   THEN out[k].is_task_complete /\ out[k].key = "content"
                   ELSE /\ ~out[k].is_task_complete
                        /\ out[k].key = "updates"
                        /\ out[k].text = Thinking

\* a turn of three steps: a delegation, a further non-final step, and a
\* final step without content
C19_Witness ==
    \E t \in Turns :
        /\ Len(turn[t].events) = 3
        /\ turn[t].events[1].call # Nothing
        /\ ~turn[t].events[2].final
        /\ turn[t].events[3].final
        /\ turn[t].events[3].content = Nothing
        /\ pc[t] = "done"

\* the lines of the listing that carry a given name
LinesNamed(name) == { i \in 1..Len(agents) : agents[i].name = name }

\* C20: after discovery the listing describes exactly the registry: it is
\* 'No connected agents found.' when the registry is empty; otherwise it
\* has one line per registered card, with the card's name and description,
\* and no other line, so none for an address that failed.
C20_ListingDescribesRegistry ==
    disc_pc = "done" =>
        IF cards = << >>
        THEN agents = <<"No connected agents found.">>
        ELSE /\ Len(agents) = Len(cards)
             /\ \A name \in DictKeySet(cards) :
                    /\ Cardinality(LinesNamed(name)) = 1
                    /\ \A i \in LinesNamed(name) :
                           agents[i] = [name |-> name,
                                        description |-> DictGet(cards, name).description]

\* discovery is done over addresses that all failed: the registry is empty
C20_Witness ==
    /\ disc_pc = "done"
    /\ remote_agent_addresses = <<"A_down", "A_bad">>
    /\ cards = << >>
    /\ Len(printed) = 2

\* turn t is past the lookup and the creation of its session
Resolved(t) == pc[t] \notin {"idle", "get_session", "create_session"}

\* the store's create operation has run exactly once for every session id
\* some turn has resolved, and never twice for any
CreatedOnce ==
    \A s \in SessionIds :
        /\ created[s] <= 1
        /\ (\E t \in Turns : Resolved(t) /\ turn[t].session_id = s) => created[s] = 1

NonEmptyTexts(event) ==
    IF event.content = Nothing THEN << >>
    ELSE SelectSeq(event.content[1], LAMBDA text : text # "")

\* C22: the content of a terminal event is the text of the final step: the
\* join, in order, of every non-empty text of its parts, also when the first
\* part carries no text and a later one does; it is empty only when no part
\* carries text.
C22_TerminalContentIsAllText ==
    \A t \in Turns :
        \A k \in 1..Len(turn[t].events) :
            turn[t].events[k].final
                => turn[t].out[k].text = NonEmptyTexts(turn[t].events[k])
====
